---- MODULE Spec2Model ----
(***************************************************************************)
(* Model of the Go package ers (github.com/ovila98/ers): the constructors  *)
(* New, Wrap and Wrapf of ers.go, and the types StackLine and Error with   *)
(* getCaller, NewStackLine and the methods of *Error, of the file called   *)
(* types.go here (its text follows the README in src/readme.md, and the    *)
(* line numbers of its frames are those of that file).                     *)
(*                                                                         *)
(* A Go string is a sequence of tokens (each token a piece of text, "\n"   *)
(* being the newline), an error value is a record naming its dynamic type  *)
(* and its identity, an *Error is an index into objs, and a []string is a  *)
(* slice header (backing array, length) over arrays.                       *)
(*                                                                         *)
(* Spec is one goroutine making any calls of the package; SpecRace is two  *)
(* goroutines calling Wrap or Wrapf on one shared *Error, statement by     *)
(* statement; SpecDeep is one error passed up a chain of Wrap and Wrapf    *)
(* calls.                                                                  *)
(***************************************************************************)
EXTENDS Integers, Sequences, FiniteSets, TLC

VARIABLES
    objs,       \* the *Error objects allocated so far, by address 1..Len(objs)
    arrays,     \* the backing arrays of []string slices, arrays[1] the caller's
    nops,       \* number of calls made
    last,       \* the last call: its operation, its arguments and its outcome
    preObjs,    \* objs as it was when the last call started
    preArrays,  \* arrays as it was when the last call started
    threads,    \* the goroutines wrapping a shared *Error, each with its locals
    log         \* the contexts given to one *Error so far, in call order

vars == <<objs, arrays, nops, last, preObjs, preArrays, threads, log>>

\* ------------------------------------------------------------------ bounds

\* Calls made in one behaviour.
MaxOps == 3

\* runtime.Caller skips explored by direct calls of getCaller: 0..MaxSkip.
MaxSkip == 3

\* Calls one *Error goes through in SpecDeep: the one that makes it and the
\* Wrap and Wrapf calls it is then passed to.
MaxDepth == 5

\* ------------------------------------------------------------------ text

NL == "\n"

Max(a, b) == IF a >= b THEN a ELSE b

Digit(d) == <<"0", "1", "2", "3", "4", "5", "6", "7", "8", "9">>[d + 1]

\* fmt's %d of a non-negative int: its decimal digits, most significant first.
RECURSIVE Itoa(_)
Itoa(n) == IF n < 10 THEN <<Digit(n)>> ELSE Itoa(n \div 10) \o <<Digit(n % 10)>>

\* strings.TrimSuffix(s, "\n")
TrimSuffixNL(s) ==
    IF Len(s) > 0 /\ s[Len(s)] = NL THEN SubSeq(s, 1, Len(s) - 1) ELSE s

\* Arguments of a fmt call: an int or a string.
IntArg(n) == [type |-> "int", int |-> n, str |-> <<>>]
StrArg(s) == [type |-> "string", int |-> 0, str |-> s]

IsVerb(tok) == tok \in {"%d", "%s"}

VerbLetter(tok) == IF tok = "%d" THEN "d" ELSE "s"

\* fmt's rendering of one verb with one operand, bad verbs included.
FormatVerb(verb, arg) ==
    CASE verb = "%d" /\ arg.type = "int" -> Itoa(arg.int)
      [] verb = "%s" /\ arg.type = "string" -> arg.str
      [] verb = "%d" /\ arg.type = "string" -> <<"%!d(string=">> \o arg.str \o <<")">>
      [] OTHER -> <<"%!s(int=">> \o Itoa(arg.int) \o <<")">>

\* fmt's report of the operands no verb consumed.
RECURSIVE ExtraArgs(_)
ExtraArgs(args) ==
    IF args = <<>> THEN <<>>
    ELSE LET a == Head(args)
             one == IF a.type = "int" THEN <<"int=">> \o Itoa(a.int)
                    ELSE <<"string=">> \o a.str
         IN  one \o (IF Len(args) > 1 THEN <<", ">> ELSE <<>>) \o ExtraArgs(Tail(args))

\* fmt.Sprintf(format, args...): the format's tokens in order, each verb
\* replaced by the rendering of the next operand.
RECURSIVE Sprintf(_, _)
Sprintf(format, args) ==
    IF format = <<>>
    THEN IF args = <<>> THEN <<>>
         ELSE <<"%!(EXTRA ">> \o ExtraArgs(args) \o <<")">>
    ELSE LET tok == Head(format) IN
         IF IsVerb(tok)
         THEN IF args = <<>>
              THEN <<"%!", VerbLetter(tok), "(MISSING)">> \o Sprintf(Tail(format), args)
              ELSE FormatVerb(tok, Head(args)) \o Sprintf(Tail(format), Tail(args))
         ELSE <<tok>> \o Sprintf(Tail(format), args)

\* --------------------------------------------------------------- StackLine

StackLine(file, line) == [file |-> file, line |-> line]

\* (s StackLine) String(): "(%s:%d)"
String(s) == Sprintf(<<"(", "%s", ":", "%d", ")">>, <<StrArg(<<s.file>>), IntArg(s.line)>>)

\* runtime.Caller(skip) on a call stack whose first frame is the function
\* calling it: the frame skip levels up, or not ok when there is none.
RuntimeCaller(skip, stack) ==
    IF skip + 1 <= Len(stack)
    THEN [ok |-> TRUE, file |-> stack[skip + 1].file, line |-> stack[skip + 1].line]
    ELSE [ok |-> FALSE, file |-> "", line |-> 0]

\* getCaller returning the zero StackLine when runtime.Caller fails.
getCaller_ZeroValue(skip, stack) ==
    LET c == RuntimeCaller(skip, stack) IN
    IF ~c.ok THEN StackLine("", 0) ELSE StackLine(c.file, c.line)

\* func getCaller(skip int) StackLine
getCaller(skip, stack) ==
    LET c == RuntimeCaller(skip, stack) IN
    IF ~c.ok THEN StackLine("unknown", 0) ELSE StackLine(c.file, c.line)

\* ------------------------------------------------------------ error values

\* An error interface value: its dynamic type (kind), the identity of what it
\* points to (id) and, for errors that are not *Error, the text of Error().
NilErr == [kind |-> "nil", id |-> 0, msg |-> <<>>]

\* A non-nil error interface holding a nil *Error.
NilPtr == [kind |-> "ers", id |-> 0, msg |-> <<>>]

\* The *Error at address i.
Ref(i) == [kind |-> "ers", id |-> i, msg |-> <<>>]

\* An error of another package, such as errors.New("base error").
Foreign(i) == [kind |-> "foreign", id |-> i, msg |-> <<"base error">>]

\* The error fmt.Errorf returns: a fresh pointer carrying the formatted text.
Errorf(id, format, args) == [kind |-> "plain", id |-> id, msg |-> Sprintf(format, args)]

\* ------------------------------------------------------------------ slices

\* A []string: its backing array (0 for none) and its length.
Slice(arr, len) == [arr |-> arr, len |-> len]

NilSlice == Slice(0, 0)

Cap(arrs, sl) == IF sl.arr = 0 THEN 0 ELSE Len(arrs[sl.arr])

\* The elements of a slice.
Items(arrs, sl) == IF sl.len = 0 THEN <<>> ELSE SubSeq(arrs[sl.arr], 1, sl.len)

\* The built-in append(sl, items...): in place when the capacity allows,
\* else into a fresh array of capacity max(needed, 2 * cap).
AppendStrings(arrs, sl, items) ==
    LET n == Len(items)
        needed == sl.len + n
        cap == Cap(arrs, sl)
    IN  IF n = 0 THEN [arrays |-> arrs, slice |-> sl]
        ELSE IF needed <= cap
        THEN [arrays |-> [arrs EXCEPT ![sl.arr] =
                            [k \in 1..cap |->
                                IF k > sl.len /\ k <= needed THEN items[k - sl.len] ELSE @[k]]],
              slice |-> Slice(sl.arr, needed)]
        ELSE LET newcap == Max(needed, 2 * cap)
                 fresh == [k \in 1..newcap |->
                             IF k <= sl.len THEN arrs[sl.arr][k]
                             ELSE IF k <= needed THEN items[k - sl.len]
                             ELSE <<>>]
             IN  [arrays |-> Append(arrs, fresh), slice |-> Slice(Len(arrs) + 1, needed)]

\* ------------------------------------------------------------- type Error

\* The heap: the *Error objects and the arrays their contexts point into.
Heap(os, arrs) == [objs |-> os, arrays |-> arrs]

\* An Error built without its first record: stackTrace: []StackLine{}
NewError_NoTrace(cause, stack, ctx) == [error |-> cause, stackTrace |-> <<>>, contexts |-> ctx]

\* &Error{error: cause, stackTrace: []StackLine{stack}, contexts: ctx}
NewError(cause, stack, ctx) == [error |-> cause, stackTrace |-> <<stack>>, contexts |-> ctx]

\* Unwrap that gives up the cause: return nil
Unwrap_Nil(h, i) == NilErr

\* (e *Error) Unwrap()
Unwrap(h, i) == h.objs[i].error

\* (e *Error) Stack()
Stack(h, i) == h.objs[i].stackTrace

\* (e *Error) Contexts()
Contexts(h, i) == Items(h.arrays, h.objs[i].contexts)

\* (e *Error) addToStack(stack): e.stackTrace = append(e.stackTrace, stack)
addToStack(h, i, stack) ==
    [h EXCEPT !.objs[i].stackTrace = Append(@, stack)]

\* AddContext that assigns where it is to append: e.contexts = contexts
AddContext_Assign(h, i, contexts) ==
    LET r == AppendStrings(h.arrays, NilSlice, contexts)
    IN  Heap([h.objs EXCEPT ![i].contexts = r.slice], r.arrays)

\* (e *Error) AddContext(contexts...): e.contexts = append(e.contexts, contexts...)
AddContext(h, i, contexts) ==
    LET r == AppendStrings(h.arrays, h.objs[i].contexts, contexts)
    IN  Heap([h.objs EXCEPT ![i].contexts = r.slice], r.arrays)

\* The loop of StackTrace() prepending each line: newest first.
RECURSIVE StackTraceLoop_NewestFirst(_)
StackTraceLoop_NewestFirst(lines) ==
    IF lines = <<>> THEN <<>>
    ELSE StackTraceLoop_NewestFirst(Tail(lines))
         \o Sprintf(<<"-> ", "%s", NL>>, <<StrArg(String(Head(lines)))>>)

\* The loop of StackTrace(): trace += fmt.Sprintf("-> %s\n", line.String())
RECURSIVE StackTraceLoop(_)
StackTraceLoop(lines) ==
    IF lines = <<>> THEN <<>>
    ELSE Sprintf(<<"-> ", "%s", NL>>, <<StrArg(String(Head(lines)))>>)
         \o StackTraceLoop(Tail(lines))

\* (e *Error) StackTrace()
StackTrace(h, i) == TrimSuffixNL(StackTraceLoop(h.objs[i].stackTrace))

\* The loop of Context(): info += fmt.Sprintf("+[%s]\n", line)
RECURSIVE ContextLoop(_)
ContextLoop(lines) ==
    IF lines = <<>> THEN <<>>
    ELSE Sprintf(<<"+[", "%s", "]", NL>>, <<StrArg(Head(lines))>>)
         \o ContextLoop(Tail(lines))

\* (e *Error) Context()
Context(h, i) == TrimSuffixNL(ContextLoop(Contexts(h, i)))

\* The header lines of Error(); <U+2022> stands for the bullet character.
HdrStack == "<U+2022> stack trace (most recent call last) <U+2022>"
HdrContext == "~ additional context (most recent last) ~"

\* Error() laid out as the README shows it, with an empty line after the
\* contexts: "%s\n\n%s\n\n%s"
Error_BlankLine(h, i) ==
    LET e == h.objs[i]
        stackTrace == Sprintf(<<HdrStack, NL, "%s">>, <<StrArg(StackTrace(h, i))>>)
    IN  IF e.contexts.len > 0
        THEN LET contexts == Sprintf(<<HdrContext, NL, "%s">>, <<StrArg(Context(h, i))>>)
             IN  Sprintf(<<"%s", NL, NL, "%s", NL, NL, "%s">>,
                         <<StrArg(e.error.msg), StrArg(contexts), StrArg(stackTrace)>>)
        ELSE Sprintf(<<"%s", NL, NL, "%s">>, <<StrArg(e.error.msg), StrArg(stackTrace)>>)

\* (e *Error) Error(); e.error.Error() is the cause's own text.
RECURSIVE Error(_, _)
Error(h, i) ==
    LET e == h.objs[i]
        cause == IF e.error.kind = "ers" THEN Error(h, e.error.id) ELSE e.error.msg
        stackTrace == Sprintf(<<HdrStack, NL, "%s">>, <<StrArg(StackTrace(h, i))>>)
    IN  IF e.contexts.len > 0
        THEN LET contexts == Sprintf(<<HdrContext, NL, "%s">>, <<StrArg(Context(h, i))>>)
             IN  Sprintf(<<"%s", NL, NL, "%s", NL, "%s">>,
                         <<StrArg(cause), StrArg(contexts), StrArg(stackTrace)>>)
        ELSE Sprintf(<<"%s", NL, NL, "%s">>, <<StrArg(cause), StrArg(stackTrace)>>)

\* errors.Is(err, target): err or an error of its Unwrap() chain is target.
RECURSIVE Is(_, _, _)
Is(h, err, target) ==
    IF err = NilErr \/ target = NilErr THEN err = target
    ELSE IF err = target THEN TRUE
    ELSE IF err.kind = "ers" /\ err.id > 0 THEN Is(h, Unwrap(h, err.id), target)
    ELSE FALSE

\* ------------------------------------------------------------ call stacks

\* The frames of the package itself, as runtime.Caller reports them: the line
\* of getCaller that calls runtime.Caller, and the lines of New, Wrap, Wrapf
\* and NewStackLine that call getCaller.
FrameGetCaller == StackLine("types.go", 165)
FrameNew == StackLine("ers.go", 19)
FrameWrap == StackLine("ers.go", 44)
FrameWrapf == StackLine("ers.go", 75)
FrameNewStackLine == StackLine("types.go", 181)

\* The frames of the package: those whose file is one of its own.
LibraryFrames == {FrameGetCaller, FrameNew, FrameWrap, FrameWrapf, FrameNewStackLine}
InLibrary(rec) == rec.file \in {f.file : f \in LibraryFrames}

\* The program using the package, as in the README: New is called on line 5,
\* Wrap on line 10, Wrapf on line 15 and the rest on line 20 of functions
\* that main calls on line 30.
SiteNew == StackLine("/path/to/file.go", 5)
SiteWrap == StackLine("/path/to/file.go", 10)
SiteWrapf == StackLine("/path/to/file.go", 15)
SiteOther == StackLine("/path/to/file.go", 20)
SiteMain == StackLine("/path/to/main.go", 30)

\* The frames below a call made at site, innermost first; none when the
\* runtime cannot resolve the caller.
CallerStacks(site) == {<<>>, <<site, SiteMain>>}

\* --------------------------------------------------------- New, Wrap, Wrapf

\* What a call leaves: the heap, the value returned, and whether it panicked.
Outcome(h, ret, panicked) == [h |-> h, ret |-> ret, panicked |-> panicked]

\* The details of a Wrap call: literal arguments (a fresh slice), or the
\* first len elements of the caller's own slice, arrays[1].
LitArgs(items) == [fresh |-> TRUE, items |-> items, len |-> Len(items)]
SliceArgs(len) == [fresh |-> FALSE, items |-> <<>>, len |-> len]

\* The strings a details argument holds.
ArgItems(h, d) == IF d.fresh THEN d.items ELSE Items(h.arrays, Slice(1, d.len))

\* New that forgets the captured location: stackTrace: []StackLine{}
New_NoCapture(h, fmessage, formatTags, callers) ==
    LET addr == Len(h.objs) + 1
        e == [error |-> Errorf(addr, fmessage, formatTags), stackTrace |-> <<>>,
              contexts |-> NilSlice]
    IN  Outcome(Heap(Append(h.objs, e), h.arrays), Ref(addr), FALSE)

\* func New(fmessage string, formatTags ...any) error
New(h, fmessage, formatTags, callers) ==
    LET stack == getCaller(2, <<FrameGetCaller, FrameNew>> \o callers)
        addr == Len(h.objs) + 1
        e == NewError(Errorf(addr, fmessage, formatTags), stack, NilSlice)
    IN  Outcome(Heap(Append(h.objs, e), h.arrays), Ref(addr), FALSE)

\* The default case of Wrap keeping a copy of the cause's text, not the cause:
\* error: fmt.Errorf("%s", err)
WrapForeign_CopiesCause(h, err, d, stack) ==
    LET addr == Len(h.objs) + 1
        arrs == IF d.fresh /\ d.len > 0 THEN Append(h.arrays, d.items) ELSE h.arrays
        details == IF ~d.fresh THEN Slice(1, d.len)
                   ELSE IF d.len > 0 THEN Slice(Len(arrs), d.len)
                   ELSE NilSlice
        cause == Errorf(addr, <<"%s">>, <<StrArg(err.msg)>>)
    IN  Outcome(Heap(Append(h.objs, NewError(cause, stack, details)), arrs), Ref(addr), FALSE)

\* The default case of Wrap: &Error{error: err, ..., contexts: details}
WrapForeign(h, err, d, stack) ==
    LET addr == Len(h.objs) + 1
        arrs == IF d.fresh /\ d.len > 0 THEN Append(h.arrays, d.items) ELSE h.arrays
        details == IF ~d.fresh THEN Slice(1, d.len)
                   ELSE IF d.len > 0 THEN Slice(Len(arrs), d.len)
                   ELSE NilSlice
    IN  Outcome(Heap(Append(h.objs, NewError(err, stack, details)), arrs), Ref(addr), FALSE)

\* Wrap without its case *Error: an *Error is wrapped in a new *Error.
WrapError_Nested(h, err, d, stack) ==
    IF err.id = 0 THEN Outcome(h, NilErr, TRUE)
    ELSE WrapForeign(h, err, d, stack)

\* The case *Error of Wrap; a nil receiver panics in addToStack.
WrapError(h, err, d, stack) ==
    IF err.id = 0 THEN Outcome(h, NilErr, TRUE)
    ELSE Outcome(AddContext(addToStack(h, err.id, stack), err.id, ArgItems(h, d)), err, FALSE)

\* Wrap without its nil check: nil takes the default case of the type switch.
Wrap_NoNilCheck(h, err, d, callers) ==
    LET stack == getCaller(2, <<FrameGetCaller, FrameWrap>> \o callers)
    IN  IF err.kind = "ers" THEN WrapError(h, err, d, stack)
        ELSE WrapForeign(h, err, d, stack)

\* Wrap whose default case wraps the *Error made last for the same cause, when
\* there is one, in place of the cause.
Wrap_NestsPrevious(h, err, d, callers) ==
    IF err = NilErr THEN Outcome(h, NilErr, FALSE)
    ELSE LET stack == getCaller(2, <<FrameGetCaller, FrameWrap>> \o callers)
             prev == {j \in 1..Len(h.objs) : h.objs[j].error = err}
         IN  IF err.kind = "ers" THEN WrapError(h, err, d, stack)
             ELSE IF prev = {} THEN WrapForeign(h, err, d, stack)
             ELSE WrapForeign(h, Ref(CHOOSE j \in prev : \A k \in prev : k <= j), d, stack)

\* func Wrap(err error, details ...string) error
Wrap(h, err, d, callers) ==
    IF err = NilErr THEN Outcome(h, NilErr, FALSE)
    ELSE LET stack == getCaller(2, <<FrameGetCaller, FrameWrap>> \o callers)
         IN  IF err.kind = "ers" THEN WrapError(h, err, d, stack)
             ELSE WrapForeign(h, err, d, stack)

\* The default case of Wrapf storing the format itself and one context per
\* operand: contexts: append([]string{fmessage}, operands...)
WrapfForeign_Unformatted(h, err, fmessage, formatTags, stack) ==
    LET addr == Len(h.objs) + 1
        ctxs == <<fmessage>> \o [k \in 1..Len(formatTags) |-> ExtraArgs(<<formatTags[k]>>)]
        arrs == Append(h.arrays, ctxs)
    IN  Outcome(Heap(Append(h.objs, NewError(err, stack, Slice(Len(arrs), Len(ctxs)))), arrs),
                Ref(addr), FALSE)

\* The default case of Wrapf: contexts: []string{fmt.Sprintf(...)}
WrapfForeign(h, err, fmessage, formatTags, stack) ==
    LET addr == Len(h.objs) + 1
        arrs == Append(h.arrays, <<Sprintf(fmessage, formatTags)>>)
    IN  Outcome(Heap(Append(h.objs, NewError(err, stack, Slice(Len(arrs), 1))), arrs),
                Ref(addr), FALSE)

\* The case *Error of Wrapf adding its context and no record.
WrapfError_NoRecord(h, err, fmessage, formatTags, stack) ==
    IF err.id = 0 THEN Outcome(h, NilErr, TRUE)
    ELSE Outcome(AddContext(h, err.id, <<Sprintf(fmessage, formatTags)>>), err, FALSE)

\* The case *Error of Wrapf; a nil receiver panics in addToStack.
WrapfError(h, err, fmessage, formatTags, stack) ==
    IF err.id = 0 THEN Outcome(h, NilErr, TRUE)
    ELSE Outcome(AddContext(addToStack(h, err.id, stack), err.id,
                            <<Sprintf(fmessage, formatTags)>>), err, FALSE)

\* func Wrapf(err error, fmessage string, formatTags ...any) error
Wrapf(h, err, fmessage, formatTags, callers) ==
    IF err = NilErr THEN Outcome(h, NilErr, FALSE)
    ELSE LET stack == getCaller(2, <<FrameGetCaller, FrameWrapf>> \o callers)
         IN  IF err.kind = "ers" THEN WrapfError(h, err, fmessage, formatTags, stack)
             ELSE WrapfForeign(h, err, fmessage, formatTags, stack)

\* NewStackLine skipping one frame too few: return getCaller(1)
NewStackLine_SkipOne(callers) == getCaller(1, <<FrameGetCaller, FrameNewStackLine>> \o callers)

\* func NewStackLine() StackLine
NewStackLine(callers) == getCaller(2, <<FrameGetCaller, FrameNewStackLine>> \o callers)

\* ------------------------------------------------------------------ inputs

\* Format strings and operands passed to New and Wrapf.
FormatCalls ==
    { [format |-> <<"base">>, args |-> <<>>],
      [format |-> <<"count: ", "%d">>, args |-> <<IntArg(42)>>] }

\* The caller's own slice: s := []string{"s", "", "t"}
CallerArray == << <<"s">>, <<>>, <<"t">> >>

\* Details passed to Wrap and AddContext: none, one literal, the caller's
\* s[:2], whose second element is the empty string, or the whole of s.
DetailArgs ==
    {LitArgs(<<>>), LitArgs(<< <<"a">> >>), LitArgs(<< <<"b">> >>), SliceArgs(2), SliceArgs(3)}

\* Contexts passed to AddContext directly: none, one literal, or s[:2].
ContextArgs == {LitArgs(<<>>), LitArgs(<< <<"a">> >>), SliceArgs(2)}

\* What the caller assigns to the first element of its slice: s[0] = "w"
CallerValues == { <<"w">> }

\* The error values a caller can pass: nil, a nil *Error, an error of
\* another package, and every *Error returned so far.
ErrorValues == {NilErr, NilPtr, Foreign(1)} \cup {Ref(i) : i \in 1..Len(objs)}

\* ------------------------------------------------------------------ actions

NoCall == [op |-> "none", err |-> NilErr, details |-> LitArgs(<<>>), items |-> <<>>,
           format |-> <<>>, args |-> <<>>, callers |-> <<>>, skip |-> 0,
           ret |-> NilErr, panicked |-> FALSE, loc |-> StackLine("", 0), text |-> <<>>]

Init ==
    /\ objs = <<>>
    /\ arrays = <<CallerArray>>
    /\ nops = 0
    /\ last = NoCall
    /\ preObjs = <<>>
    /\ preArrays = <<CallerArray>>
    /\ threads = <<>>
    /\ log = <<>>

\* The last call left the heap as it found it.
Idle == last.op # "none" /\ objs = preObjs /\ arrays = preArrays

\* A further call is explored: the budget allows it, and the last call changed
\* the heap (after one that did not, a further call does what it does from
\* the state before).
MayCall == nops < MaxOps /\ ~Idle

\* What a call that ends with outcome r leaves of the heap and of the record
\* of the last call.
FinishCall(r, call) ==
    /\ objs' = r.h.objs
    /\ arrays' = r.h.arrays
    /\ nops' = nops + 1
    /\ last' = [call EXCEPT !.ret = r.ret, !.panicked = r.panicked]
    /\ preObjs' = objs
    /\ preArrays' = arrays

\* A call that ends with outcome r, made by the one goroutine of Spec.
Finish(r, call) ==
    /\ FinishCall(r, call)
    /\ UNCHANGED <<threads, log>>

CallNew(c, callers) ==
    /\ MayCall
    /\ Finish(New(Heap(objs, arrays), c.format, c.args, callers),
              [NoCall EXCEPT !.op = "New", !.format = c.format, !.args = c.args,
                             !.callers = callers])

CallWrap(err, d, callers) ==
    /\ MayCall
    /\ Finish(Wrap(Heap(objs, arrays), err, d, callers),
              [NoCall EXCEPT !.op = "Wrap", !.err = err, !.details = d,
                             !.items = ArgItems(Heap(objs, arrays), d),
                             !.callers = callers])

CallWrapf(err, c, callers) ==
    /\ MayCall
    /\ Finish(Wrapf(Heap(objs, arrays), err, c.format, c.args, callers),
              [NoCall EXCEPT !.op = "Wrapf", !.err = err, !.format = c.format,
                             !.args = c.args, !.callers = callers])

CallAddContext(i, d) ==
    /\ MayCall
    /\ Finish(Outcome(AddContext(Heap(objs, arrays), i, ArgItems(Heap(objs, arrays), d)),
                      NilErr, FALSE),
              [NoCall EXCEPT !.op = "AddContext", !.err = Ref(i), !.details = d,
                             !.items = ArgItems(Heap(objs, arrays), d)])

CallGetCaller(skip, callers) ==
    /\ MayCall
    /\ Finish(Outcome(Heap(objs, arrays), NilErr, FALSE),
              [NoCall EXCEPT !.op = "getCaller", !.skip = skip, !.callers = callers,
                             !.loc = getCaller(skip, <<FrameGetCaller>> \o callers)])

CallNewStackLine(callers) ==
    /\ MayCall
    /\ Finish(Outcome(Heap(objs, arrays), NilErr, FALSE),
              [NoCall EXCEPT !.op = "NewStackLine", !.callers = callers,
                             !.loc = NewStackLine(callers)])

CallError(i) ==
    /\ MayCall
    /\ Finish(Outcome(Heap(objs, arrays), NilErr, FALSE),
              [NoCall EXCEPT !.op = "Error", !.err = Ref(i),
                             !.text = Error(Heap(objs, arrays), i)])

CallStackTrace(i) ==
    /\ MayCall
    /\ Finish(Outcome(Heap(objs, arrays), NilErr, FALSE),
              [NoCall EXCEPT !.op = "StackTrace", !.err = Ref(i),
                             !.text = StackTrace(Heap(objs, arrays), i)])

CallContext(i) ==
    /\ MayCall
    /\ Finish(Outcome(Heap(objs, arrays), NilErr, FALSE),
              [NoCall EXCEPT !.op = "Context", !.err = Ref(i),
                             !.text = Context(Heap(objs, arrays), i)])

\* The caller writes into its own slice after passing it to Wrap, which made
\* an *Error of it: s[0] = v
CallerWrite(v) ==
    /\ MayCall
    /\ \E i \in 1..Len(objs) : objs[i].contexts.arr = 1
    /\ Finish(Outcome(Heap(objs, [arrays EXCEPT ![1][1] = v]), NilErr, FALSE),
              [NoCall EXCEPT !.op = "CallerWrite", !.items = <<v>>])

Next ==
    \/ \E c \in FormatCalls, callers \in CallerStacks(SiteNew) : CallNew(c, callers)
    \/ \E err \in ErrorValues, d \in DetailArgs, callers \in CallerStacks(SiteWrap) :
          CallWrap(err, d, callers)
    \/ \E err \in ErrorValues, c \in FormatCalls, callers \in CallerStacks(SiteWrapf) :
          CallWrapf(err, c, callers)
    \/ \E i \in 1..Len(objs), d \in ContextArgs : CallAddContext(i, d)
    \/ \E skip \in 0..MaxSkip, callers \in CallerStacks(SiteOther) :
          CallGetCaller(skip, callers)
    \/ \E callers \in CallerStacks(SiteOther) : CallNewStackLine(callers)
    \/ \E i \in 1..Len(objs) : CallError(i)
    \/ \E i \in 1..Len(objs) : CallStackTrace(i)
    \/ \E i \in 1..Len(objs) : CallContext(i)
    \/ \E v \in CallerValues : CallerWrite(v)

Spec == Init /\ [][Next]_vars

\* ------------------------------------------- goroutines sharing one *Error

\* Two goroutines hold the same *Error, the one at address Shared, and each
\* calls Wrap or Wrapf on it once with no lock. The statements of the case
\* *Error run as the loads and stores they are: e.stackTrace is loaded, then
\* stored with the record appended; e.contexts is loaded, then stored with the
\* details appended.
Threads == {1, 2}

Shared == 1

\* Goroutine t calls from its own line of a function that main starts.
SiteThread(t) == StackLine("/path/to/worker.go", 40 + t)

\* A goroutine that has not called yet.
IdleThread == [pc |-> "idle", items |-> <<>>, stack |-> StackLine("", 0),
               trace |-> <<>>, ctx |-> NilSlice, overlap |-> FALSE, seq |-> 0]

\* The shared *Error is the one New("base") or Wrap(errors.New("base error"),
\* details...) returned before the goroutines started.
RaceInit ==
    \E r \in {New(Heap(<<>>, <<CallerArray>>), <<"base">>, <<>>, <<SiteNew, SiteMain>>)}
              \cup {Wrap(Heap(<<>>, <<CallerArray>>), Foreign(1), d, <<SiteWrap, SiteMain>>) :
                       d \in DetailArgs} :
        /\ objs = r.h.objs
        /\ arrays = r.h.arrays
        /\ nops = 1
        /\ last = NoCall
        /\ preObjs = r.h.objs
        /\ preArrays = r.h.arrays
        /\ threads = [t \in Threads |-> IdleThread]
        /\ log = <<>>

\* Goroutine t enters Wrap or Wrapf (frame is the line of it that calls
\* getCaller) with the shared *Error: err is not nil, the location is
\* captured and the type switch takes case *Error. overlap records that
\* another call was under way, seq how many calls had returned.
RaceStart(t, items, frame) ==
    /\ threads[t].pc = "idle"
    /\ threads' = [threads EXCEPT ![t] =
          [@ EXCEPT !.pc = "loadTrace",
                    !.items = items,
                    !.stack = getCaller(2, <<FrameGetCaller, frame, SiteThread(t), SiteMain>>),
                    !.overlap = \E u \in Threads \ {t} : threads[u].pc \notin {"idle", "done"},
                    !.seq = Cardinality({u \in Threads : threads[u].pc = "done"})]]
    /\ UNCHANGED <<objs, arrays, nops, last, preObjs, preArrays, log>>

RaceWrap(t, d) == RaceStart(t, ArgItems(Heap(objs, arrays), d), FrameWrap)

RaceWrapf(t, c) == RaceStart(t, <<Sprintf(c.format, c.args)>>, FrameWrapf)

\* addToStack, first half: the load of e.stackTrace.
RaceLoadTrace(t) ==
    /\ threads[t].pc = "loadTrace"
    /\ threads' = [threads EXCEPT ![t] =
          [@ EXCEPT !.pc = "storeTrace", !.trace = objs[Shared].stackTrace]]
    /\ UNCHANGED <<objs, arrays, nops, last, preObjs, preArrays, log>>

\* addToStack, second half: the store of append(loaded, stack), which is
\* addToStack run on the heap as the goroutine saw it.
RaceStoreTrace(t) ==
    /\ threads[t].pc = "storeTrace"
    /\ LET seen == Heap([objs EXCEPT ![Shared].stackTrace = threads[t].trace], arrays)
       IN  objs' = addToStack(seen, Shared, threads[t].stack).objs
    /\ threads' = [threads EXCEPT ![t] = [@ EXCEPT !.pc = "loadContexts"]]
    /\ UNCHANGED <<arrays, nops, last, preObjs, preArrays, log>>

\* AddContext, first half: the load of e.contexts.
RaceLoadContexts(t) ==
    /\ threads[t].pc = "loadContexts"
    /\ threads' = [threads EXCEPT ![t] =
          [@ EXCEPT !.pc = "storeContexts", !.ctx = objs[Shared].contexts]]
    /\ UNCHANGED <<objs, arrays, nops, last, preObjs, preArrays, log>>

\* AddContext, second half: append writes the details after the loaded
\* slice and the result is stored, which is AddContext run on the heap as
\* the goroutine saw it; the call returns.
RaceStoreContexts(t) ==
    /\ threads[t].pc = "storeContexts"
    /\ LET seen == Heap([objs EXCEPT ![Shared].contexts = threads[t].ctx], arrays)
           h == AddContext(seen, Shared, threads[t].items)
       IN  /\ objs' = h.objs
           /\ arrays' = h.arrays
    /\ threads' = [threads EXCEPT ![t] = [@ EXCEPT !.pc = "done"]]
    /\ UNCHANGED <<nops, last, preObjs, preArrays, log>>

RaceNext ==
    \/ \E t \in Threads, d \in DetailArgs : RaceWrap(t, d)
    \/ \E t \in Threads, c \in FormatCalls : RaceWrapf(t, c)
    \/ \E t \in Threads : RaceLoadTrace(t)
    \/ \E t \in Threads : RaceStoreTrace(t)
    \/ \E t \in Threads : RaceLoadContexts(t)
    \/ \E t \in Threads : RaceStoreContexts(t)

SpecRace == RaceInit /\ [][RaceNext]_vars

\* ------------------------------------------------ one *Error wrapped deep

\* One error is made, by New or by Wrap or Wrapf of a foreign error, and then
\* passed from Wrap to Wrapf to Wrap as it goes up the call chain, as
\* TestDeepWrapping does; log keeps the contexts the calls were given.
DeepInit ==
    /\ objs = <<>>
    /\ arrays = <<CallerArray>>
    /\ nops = 0
    /\ last = NoCall
    /\ preObjs = <<>>
    /\ preArrays = <<CallerArray>>
    /\ threads = <<>>
    /\ log = <<>>

DeepNew(c, callers) ==
    /\ nops = 0
    /\ FinishCall(New(Heap(objs, arrays), c.format, c.args, callers),
                  [NoCall EXCEPT !.op = "New", !.format = c.format, !.args = c.args,
                                 !.callers = callers])
    /\ log' = <<>>
    /\ UNCHANGED threads

\* Wrap of a foreign error when first is TRUE, of the *Error made else.
DeepWrap(first, d, callers) ==
    /\ IF first THEN nops = 0 ELSE nops \in 1..(MaxDepth - 1)
    /\ LET err == IF first THEN Foreign(1) ELSE Ref(1) IN
       FinishCall(Wrap(Heap(objs, arrays), err, d, callers),
                  [NoCall EXCEPT !.op = "Wrap", !.err = err, !.details = d,
                                 !.items = ArgItems(Heap(objs, arrays), d),
                                 !.callers = callers])
    /\ log' = log \o ArgItems(Heap(objs, arrays), d)
    /\ UNCHANGED threads

\* Wrapf of a foreign error when first is TRUE, of the *Error made else.
DeepWrapf(first, c, callers) ==
    /\ IF first THEN nops = 0 ELSE nops \in 1..(MaxDepth - 1)
    /\ LET err == IF first THEN Foreign(1) ELSE Ref(1) IN
       FinishCall(Wrapf(Heap(objs, arrays), err, c.format, c.args, callers),
                  [NoCall EXCEPT !.op = "Wrapf", !.err = err, !.format = c.format,
                                 !.args = c.args, !.callers = callers])
    /\ log' = log \o <<IF c.format = <<"base">> THEN <<"base">> ELSE <<"count: ", "4", "2">> >>
    /\ UNCHANGED threads

DeepNext ==
    \/ \E c \in FormatCalls, callers \in CallerStacks(SiteNew) : DeepNew(c, callers)
    \/ \E d \in DetailArgs, callers \in CallerStacks(SiteWrap) : DeepWrap(TRUE, d, callers)
    \/ \E c \in FormatCalls, callers \in CallerStacks(SiteWrapf) : DeepWrapf(TRUE, c, callers)
    \/ \E d \in DetailArgs : DeepWrap(FALSE, d, <<SiteWrap, SiteMain>>)
    \/ \E c \in FormatCalls : DeepWrapf(FALSE, c, <<SiteWrapf, SiteMain>>)

SpecDeep == DeepInit /\ [][DeepNext]_vars

\* ------------------------------------------------------------- properties

\* The heap now, and the heap when the last call started.
Now == Heap(objs, arrays)
Pre == Heap(preObjs, preArrays)

\* The last call was made with an *Error that exists.
OnError == last.err.kind = "ers" /\ last.err.id > 0

\* The record a call made with these caller frames is to capture.
Captured(callers) == IF callers = <<>> THEN StackLine("unknown", 0) ELSE callers[1]

\* Every *Error that existed when the last call started is as it was.
OthersUnchanged(except) ==
    \A i \in 1..Len(preObjs) :
        i # except =>
            /\ objs[i].error = preObjs[i].error
            /\ Stack(Now, i) = Stack(Pre, i)
            /\ Contexts(Now, i) = Contexts(Pre, i)

\* C1. Nil transparency: Wrap(nil, details...) and Wrapf(nil, format, args...)
\* return nil without panicking, allocate no *Error, and leave every existing
\* *Error (its cause, its trace with no location added, its contexts) as it was.
C1_NilTransparency ==
    (last.op \in {"Wrap", "Wrapf"} /\ last.err = NilErr) =>
        /\ last.ret = NilErr
        /\ ~last.panicked
        /\ Len(objs) = Len(preObjs)
        /\ OthersUnchanged(0)

\* Wrap(nil, "a") was called when an *Error with a trace existed.
C1_Witness ==
    /\ last.op = "Wrap" /\ last.err = NilErr /\ last.items = << <<"a">> >>
    /\ Len(objs) > 0

\* C2. In-place accumulation: Wrap(err, details...) on an existing *Error
\* returns err itself, allocates no *Error, appends exactly one record at the
\* end of its trace and exactly the details, in order, at the end of its
\* contexts, and keeps its cause.
C2_InPlaceAccumulation ==
    (last.op = "Wrap" /\ OnError) =>
        LET i == last.err.id IN
        /\ ~last.panicked
        /\ last.ret = last.err
        /\ Len(objs) = Len(preObjs)
        /\ Len(Stack(Now, i)) = Len(Stack(Pre, i)) + 1
        /\ SubSeq(Stack(Now, i), 1, Len(Stack(Pre, i))) = Stack(Pre, i)
        /\ Stack(Now, i)[Len(Stack(Now, i))] = Captured(last.callers)
        /\ Contexts(Now, i) = Contexts(Pre, i) \o last.items
        /\ objs[i].error = preObjs[i].error

\* After e := New("base"); Wrap(e, "a"); Wrap(e, "b"): one object, three
\* records, contexts ["a", "b"].
C2_Witness ==
    /\ last.op = "Wrap" /\ last.ret = Ref(1) /\ Len(objs) = 1
    /\ objs[1].error.msg = <<"base">>
    /\ Len(Stack(Now, 1)) = 3
    /\ Contexts(Now, 1) = << <<"a">>, <<"b">> >>

\* C3. Foreign wrap: Wrap(err, details...) on a non-nil error that is not an
\* *Error returns a new *Error whose Unwrap() is err itself, whose trace is
\* the one record this call captured and whose contexts are the details in
\* order; nothing that existed is modified.
C3_ForeignWrap ==
    (last.op = "Wrap" /\ last.err.kind = "foreign") =>
        LET i == Len(preObjs) + 1 IN
        /\ ~last.panicked
        /\ last.ret = Ref(i)
        /\ Len(objs) = i
        /\ Unwrap(Now, i) = last.err
        /\ Stack(Now, i) = <<Captured(last.callers)>>
        /\ Contexts(Now, i) = last.items
        /\ OthersUnchanged(0)

\* Wrap(errors.New("base error"), s[:2]...) made the second *Error.
C3_Witness ==
    /\ last.op = "Wrap" /\ last.err = Foreign(1) /\ last.ret = Ref(2)
    /\ Contexts(Now, 2) = << <<"s">>, <<>> >>
    /\ Len(Stack(Now, 2)) = 1

\* The text fmt gives the formats of FormatCalls.
Formatted(format) ==
    IF format = <<"base">> THEN <<"base">> ELSE <<"count: ", "4", "2">>

\* C4. New returns, without failing, a fresh non-nil *Error whose trace is the
\* one record this call captured, whose contexts are empty and whose cause is
\* a plain error (not an *Error) carrying the formatted message.
C4_New ==
    last.op = "New" =>
        LET i == Len(preObjs) + 1 IN
        /\ ~last.panicked
        /\ last.ret = Ref(i)
        /\ Len(objs) = i
        /\ Stack(Now, i) = <<Captured(last.callers)>>
        /\ Contexts(Now, i) = <<>>
        /\ objs[i].error.kind = "plain"
        /\ objs[i].error.msg = Formatted(last.format)
        /\ \A j \in 1..Len(preObjs) : objs[j].error # objs[i].error
        /\ OthersUnchanged(0)

\* New("count: %d", 42) made a second *Error.
C4_Witness ==
    /\ last.op = "New" /\ last.ret = Ref(2)
    /\ objs[2].error.msg = <<"count: ", "4", "2">>

\* Unwrap() repeated until an error that is no *Error is reached.
RECURSIVE Innermost(_, _)
Innermost(h, err) ==
    IF err.kind = "ers" /\ err.id > 0 THEN Innermost(h, Unwrap(h, err.id)) ELSE err

\* The number of Unwrap() calls Innermost makes.
RECURSIVE UnwrapSteps(_, _)
UnwrapSteps(h, err) ==
    IF err.kind = "ers" /\ err.id > 0 THEN 1 + UnwrapSteps(h, Unwrap(h, err.id)) ELSE 0

\* C5. Unwrap chain integrity: Unwrap() of an *Error is the cause stored when
\* it was made (the error given to the Wrap or Wrapf that made it, the plain
\* error of New) and no later call changes it; unwrapping any *Error
\* repeatedly reaches, in at most as many steps as there are objects, an
\* innermost error that is no *Error, and errors.Is finds that error.
C5_UnwrapChain ==
    /\ \A i \in 1..Len(preObjs) : Unwrap(Now, i) = Unwrap(Pre, i)
    /\ (last.op \in {"Wrap", "Wrapf"} /\ last.err.kind = "foreign") =>
           Unwrap(Now, last.ret.id) = last.err
    /\ last.op = "New" => Unwrap(Now, last.ret.id).kind = "plain"
    /\ \A i \in 1..Len(objs) :
           LET bottom == Innermost(Now, Ref(i)) IN
           /\ bottom.kind \in {"foreign", "plain"}
           /\ UnwrapSteps(Now, Ref(i)) <= Len(objs)
           /\ Is(Now, Ref(i), bottom)

\* The *Error made by wrapping the sentinel errors.New("base error") was
\* wrapped twice more, and errors.Is still finds the sentinel.
C5_Witness ==
    /\ Len(objs) = 1
    /\ Unwrap(Now, 1) = Foreign(1)
    /\ Len(Stack(Now, 1)) = 3
    /\ last.op = "Wrapf" /\ last.ret = Ref(1)
    /\ Is(Now, Ref(1), Foreign(1))

\* C6. Wrap and Wrapf return nil exactly when their input is nil: for every
\* non-nil input, a nil *Error in an error interface included, the call
\* completes and returns a non-nil *Error; New never returns nil.
C6_NilIffInputNil ==
    /\ last.op \in {"Wrap", "Wrapf"} =>
           /\ ~last.panicked
           /\ (last.ret = NilErr) <=> (last.err = NilErr)
           /\ last.err # NilErr => (last.ret.kind = "ers" /\ last.ret.id > 0)
    /\ last.op = "New" => (~last.panicked /\ last.ret.kind = "ers" /\ last.ret.id > 0)

\* The number of tokens of text equal to tok.
Count(text, tok) == Cardinality({k \in 1..Len(text) : text[k] = tok})

C7_WitnessNoContext ==
    /\ last.op = "Error"
    /\ objs[last.err.id].error = Foreign(1)
    /\ Contexts(Now, last.err.id) = <<>>

\* C8. README v1.2.0: when an *Error has at least one context, Error() has
\* an empty line between the last "+[...]" line and the stack trace header.
C8_BlankLineBeforeStackHeader ==
    (last.op = "Error" /\ Contexts(Now, last.err.id) # <<>>) =>
        \E k \in 1..Len(last.text) :
            /\ k + 3 <= Len(last.text)
            /\ last.text[k] = "]" /\ last.text[k + 1] = NL /\ last.text[k + 2] = NL
            /\ last.text[k + 3] = HdrStack

\* The lines of a text: its tokens between newlines.
RECURSIVE Lines(_)
Lines(text) ==
    IF text = <<>> THEN << <<>> >>
    ELSE LET rest == Lines(Tail(text)) IN
         IF Head(text) = NL THEN << <<>> >> \o rest
         ELSE << <<Head(text)>> \o rest[1] >> \o Tail(rest)

\* C9. Rendering order and line shape: StackTrace() is exactly len(trace)
\* lines, line k being "-> " and then "(path:line)" of the k-th record, with
\* single newlines between them and none at the end; Context() is exactly
\* len(contexts) lines, line k being "+[", the k-th context and "]", likewise
\* joined, and the empty string when there are no contexts.
C9_RenderingOrder ==
    /\ last.op = "StackTrace" =>
           LET trace == Stack(Now, last.err.id)
               st == last.text
               lines == Lines(st)
           IN  /\ Len(lines) = Len(trace)
               /\ \A k \in 1..Len(trace) :
                      lines[k] = <<"-> ", "(", trace[k].file, ":">>
                                 \o Itoa(trace[k].line) \o <<")">>
               /\ st[Len(st)] # NL
               /\ Count(st, NL) = Len(trace) - 1
    /\ last.op = "Context" =>
           LET ctxs == Contexts(Now, last.err.id)
               ct == last.text
               lines == Lines(ct)
           IN  IF ctxs = <<>> THEN ct = <<>>
               ELSE /\ Len(lines) = Len(ctxs)
                    /\ \A k \in 1..Len(ctxs) : lines[k] = <<"+[">> \o ctxs[k] \o <<"]">>
                    /\ ct[Len(ct)] # NL
                    /\ Count(ct, NL) = Len(ctxs) - 1

\* StackTrace() was called on an *Error with two distinct trace records.
C9_Witness ==
    /\ last.op = "StackTrace"
    /\ Len(Stack(Now, last.err.id)) = 2
    /\ Stack(Now, last.err.id)[1] # Stack(Now, last.err.id)[2]
    /\ Count(last.text, NL) = 1

\* Context() was called on an *Error with the contexts "s" and "".
C9_WitnessContext ==
    /\ last.op = "Context"
    /\ Contexts(Now, last.err.id) = << <<"s">>, <<>> >>

\* C10. Sentinel on capture failure: when runtime.Caller has no frame at the
\* skip asked for, getCaller returns file "unknown" and line 0, rendered
\* "(unknown:0)", and does not panic; New, and Wrap or Wrapf of a foreign
\* error or of an existing *Error, then still complete and add exactly one
\* record, the sentinel, to the trace.
C10_CaptureFailure ==
    /\ (last.op = "getCaller" /\ last.skip >= Len(last.callers) + 1) =>
           /\ ~last.panicked
           /\ last.loc.file = "unknown" /\ last.loc.line = 0
           /\ String(last.loc) = <<"(", "unknown", ":", "0", ")">>
    /\ (/\ last.callers = <<>>
        /\ \/ last.op = "New"
           \/ last.op \in {"Wrap", "Wrapf"} /\ (last.err.kind = "foreign" \/ OnError)) =>
           /\ ~last.panicked
           /\ last.ret.kind = "ers" /\ last.ret.id > 0
           /\ Stack(Now, last.ret.id) =
                  (IF OnError THEN Stack(Pre, last.err.id) ELSE <<>>)
                  \o <<StackLine("unknown", 0)>>

\* getCaller was called with a skip beyond the frames of a resolvable stack.
C10_Witness ==
    /\ last.op = "getCaller" /\ last.callers # <<>>
    /\ last.skip = Len(last.callers) + 1
    /\ last.loc = StackLine("unknown", 0)

\* Wrap extended an existing *Error while the runtime could not resolve the
\* caller.
C10_WitnessWrap ==
    /\ last.op = "Wrap" /\ OnError /\ last.callers = <<>>
    /\ Len(Stack(Now, last.err.id)) = 2
    /\ Stack(Now, last.err.id)[2] = StackLine("unknown", 0)

\* C11. Every *Error that exists has at least one trace record, after any
\* sequence of New, Wrap, Wrapf and AddContext calls, whether the runtime
\* resolved the callers or not.
C11_TraceNonEmpty ==
    \A i \in 1..Len(objs) : Len(Stack(Now, i)) >= 1

\* AddContext was called on an *Error whose only record is the sentinel of a
\* failed capture, after a call that made another *Error.
C11_Witness ==
    /\ last.op = "AddContext" /\ Len(objs) = 2
    /\ Stack(Now, last.err.id) = <<StackLine("unknown", 0)>>
    /\ Len(Contexts(Now, last.err.id)) >= 1

\* The heap Wrap(err, s) leaves when called where the last call was made.
WrapLike(s) == Wrap(Pre, last.err, LitArgs(<<s>>), last.callers)

\* C12. Wrapf appends exactly one context: Wrapf(err, format, args...) on a
\* non-nil err leaves what Wrap(err, s) leaves, s being format formatted with
\* args (the same objects with the same causes, traces and contexts, the same
\* value returned, the same panic); on an existing *Error the contexts grow
\* by the one entry s, appended last, and the trace by one record; on a
\* foreign error the new *Error has exactly the context s and one record.
C12_WrapfOneContext ==
    (last.op = "Wrapf" /\ last.err # NilErr) =>
        LET s == Sprintf(last.format, last.args)
            w == WrapLike(s)
            i == last.ret.id
        IN  /\ last.ret = w.ret
            /\ last.panicked = w.panicked
            /\ Len(objs) = Len(w.h.objs)
            /\ \A j \in 1..Len(objs) :
                   /\ objs[j].error = w.h.objs[j].error
                   /\ Stack(Now, j) = Stack(w.h, j)
                   /\ Contexts(Now, j) = Contexts(w.h, j)
            /\ s = Formatted(last.format)
            /\ OnError =>
                   /\ i = last.err.id
                   /\ Contexts(Now, i) = Contexts(Pre, i) \o <<s>>
                   /\ Len(Stack(Now, i)) = Len(Stack(Pre, i)) + 1
            /\ last.err.kind = "foreign" =>
                   /\ i = Len(preObjs) + 1
                   /\ Contexts(Now, i) = <<s>>
                   /\ Len(Stack(Now, i)) = 1

\* Wrapf(errors.New("base error"), "count: %d", 42) made an *Error whose one
\* context is "count: 42".
C12_Witness ==
    /\ last.op = "Wrapf" /\ last.err = Foreign(1)
    /\ Contexts(Now, last.ret.id) = << <<"count: ", "4", "2">> >>

\* Wrapf(e, "count: %d", 42) extended an *Error that had contexts already.
C12_WitnessInPlace ==
    /\ last.op = "Wrapf" /\ OnError
    /\ Len(Contexts(Pre, last.err.id)) >= 1
    /\ Contexts(Now, last.err.id)[Len(Contexts(Now, last.err.id))] = <<"count: ", "4", "2">>

\* The *Error values that wrapped err before the last call.
PreviousWrappers(err) == {j \in 1..Len(preObjs) : preObjs[j].error = err}

\* The last call was Wrap of a foreign error that had been wrapped before.
RepeatedForeignWrap ==
    /\ last.op = "Wrap" /\ last.err.kind = "foreign"
    /\ PreviousWrappers(last.err) # {}

\* C14 as stated. When Wrap's default case is hit again on the same foreign
\* error, the new wrapper nests the previous one: its cause is the wrapper
\* made before and its chain is one level deeper than that wrapper's.
C14_NestsPrevious ==
    RepeatedForeignWrap =>
        LET prev == CHOOSE j \in PreviousWrappers(last.err) :
                        \A k \in PreviousWrappers(last.err) : k <= j
        IN  /\ last.ret = Ref(Len(preObjs) + 1)
            /\ Unwrap(Now, last.ret.id) = Ref(prev)
            /\ UnwrapSteps(Now, last.ret) = UnwrapSteps(Now, Ref(prev)) + 1

\* C14 as amended. When Wrap's default case is hit again on the same foreign
\* error, the call makes a new wrapper beside the earlier ones: its cause is
\* the foreign error itself, no wrapper is the cause of another, the chain of
\* each is one level deep, and the earlier wrappers keep their cause, trace
\* and contexts (where Wrap of an *Error extends the same object).
C14_ForeignWrapsIndependent ==
    RepeatedForeignWrap =>
        /\ last.ret = Ref(Len(preObjs) + 1)
        /\ Len(objs) = Len(preObjs) + 1
        /\ Unwrap(Now, last.ret.id) = last.err
        /\ UnwrapSteps(Now, last.ret) = 1
        /\ \A j \in PreviousWrappers(last.err) :
               /\ Unwrap(Now, j) = last.err
               /\ UnwrapSteps(Now, Ref(j)) = 1
               /\ Stack(Now, j) = Stack(Pre, j)
               /\ Contexts(Now, j) = Contexts(Pre, j)

\* errors.New("base error") was wrapped at one place and then by Wrap at
\* another: two *Error values with the same cause and different records.
C14_Witness ==
    /\ RepeatedForeignWrap
    /\ \E j \in PreviousWrappers(last.err) :
           Stack(Now, j)[1] # Stack(Now, last.ret.id)[1]

\* The last call stored a record: New, or Wrap or Wrapf of a foreign error or
\* of an *Error that exists.
StoredRecord ==
    \/ last.op = "New"
    \/ last.op \in {"Wrap", "Wrapf"} /\ (last.err.kind = "foreign" \/ OnError)

\* C15. Captured location is the immediate caller: when the runtime resolves
\* the callers, the record New, Wrap and Wrapf store (the last of the trace
\* of the *Error returned) and the record NewStackLine returns are the frame
\* of the function that called them, never a frame of the package itself;
\* so an *Error made by New and then passed to Wrap at another place holds
\* two different records.
C15_ImmediateCaller ==
    /\ (StoredRecord /\ last.callers # <<>>) =>
           LET trace == Stack(Now, last.ret.id)
               rec == trace[Len(trace)]
           IN  /\ rec = last.callers[1]
               /\ ~InLibrary(rec)
               /\ (last.op = "Wrap" /\ OnError /\ objs[last.ret.id].error.kind = "plain"
                     /\ ~InLibrary(trace[1]) /\ trace[1].file # "unknown") =>
                      trace[1] # rec
    /\ (last.op = "NewStackLine" /\ last.callers # <<>>) =>
           /\ last.loc = last.callers[1]
           /\ ~InLibrary(last.loc)

\* Wrap at line 10 extended the *Error New made at line 5: its trace is the
\* two call sites, in that order.
C15_Witness ==
    /\ last.op = "Wrap" /\ OnError
    /\ Stack(Now, last.ret.id) = <<SiteNew, SiteWrap>>
    /\ objs[last.ret.id].error.kind = "plain"

\* NewStackLine returned the line of its caller.
C15_WitnessNewStackLine ==
    /\ last.op = "NewStackLine" /\ last.loc = SiteOther

\* C16. Trace length counts propagation points: an *Error made by New (or by
\* Wrap or Wrapf of a foreign error) and then passed through n further Wrap
\* and Wrapf calls, in any mix, has exactly n + 1 trace records, and its
\* contexts are exactly the details of each Wrap and the one formatted string
\* of each Wrapf, in call order; no call makes a second *Error.
C16_TraceCountsCalls ==
    nops >= 1 =>
        /\ Len(objs) = 1
        /\ last.ret = Ref(1)
        /\ Len(Stack(Now, 1)) = (nops - 1) + 1
        /\ Contexts(Now, 1) = log

\* New followed by four wraps, Wrap and Wrapf among them: five records.
C16_Witness ==
    /\ nops = 5
    /\ objs[1].error.kind = "plain"
    /\ Len(Stack(Now, 1)) = 5
    /\ last.op = "Wrapf"
    /\ \E k \in 1..Len(log) : log[k] = <<"a">>
    /\ Len(Contexts(Now, 1)) >= 4

\* s is a prefix of t.
IsPrefix(s, t) == Len(s) <= Len(t) /\ SubSeq(t, 1, Len(s)) = s

\* The last call was a call of the package that may store something.
StoringCall == last.op \in {"New", "Wrap", "Wrapf", "AddContext"}

\* C17. Append-only history: no New, Wrap, Wrapf or AddContext call changes,
\* reorders or removes a record or a context stored in any *Error: across
\* the call the old trace is a prefix of the new trace and the old contexts
\* are a prefix of the new contexts.
C17_AppendOnly ==
    StoringCall =>
        \A i \in 1..Len(preObjs) :
            /\ IsPrefix(Stack(Pre, i), Stack(Now, i))
            /\ IsPrefix(Contexts(Pre, i), Contexts(Now, i))

\* C18. Context storage is independent of the caller's slice: when the
\* caller writes into the slice it passed to Wrap, the contexts of every
\* *Error stay as they were; and no Wrap, Wrapf or AddContext on an *Error
\* writes into the caller's slice or its backing array.
C18_ContextsOwnStorage ==
    /\ last.op = "CallerWrite" =>
           \A i \in 1..Len(objs) : Contexts(Now, i) = Contexts(Pre, i)
    /\ (last.op \in {"Wrap", "Wrapf", "AddContext"} /\ OnError) =>
           arrays[1] = preArrays[1]

\* C19. Frame of AddContext: AddContext(c1..ck) on an *Error appends c1..ck,
\* in order, to its contexts and changes nothing else: not its trace (no
\* location is captured), not its cause, not any other *Error, and it makes
\* no *Error; with no arguments it leaves the whole state as it was.
C19_AddContextFrame ==
    last.op = "AddContext" =>
        LET i == last.err.id IN
        /\ ~last.panicked
        /\ Contexts(Now, i) = Contexts(Pre, i) \o last.items
        /\ Stack(Now, i) = Stack(Pre, i)
        /\ objs[i].error = preObjs[i].error
        /\ Len(objs) = Len(preObjs)
        /\ OthersUnchanged(i)
        /\ last.items = <<>> => (objs = preObjs /\ arrays = preArrays)

\* Both goroutines have returned from their call.
BothDone == \A t \in Threads : threads[t].pc = "done"

\* Neither call started while the other was under way.
Serialized == \A t \in Threads : ~threads[t].overlap

\* The number of contexts the two calls were given.
GivenContexts == Len(threads[1].items) + Len(threads[2].items)

\* C13. Two goroutines wrapping the same *Error with no lock: once both calls
\* have returned the trace is the old trace followed by one or two records
\* (an interleaving may lose one, never both); when the two calls did not
\* overlap, the trace ends with both records and the contexts with all the
\* details, those of the call made first before those of the call made second.
C13_SerializedKeepsAll ==
    BothDone =>
        LET before == Stack(Pre, Shared)
            after == Stack(Now, Shared)
        IN  /\ Len(after) \in {Len(before) + 1, Len(before) + 2}
            /\ SubSeq(after, 1, Len(before)) = before
            /\ Serialized =>
                   \E a \in Threads : \E b \in Threads \ {a} :
                       /\ threads[a].seq = 0 /\ threads[b].seq = 1
                       /\ after = before \o <<threads[a].stack, threads[b].stack>>
                       /\ Contexts(Now, Shared) =
                              Contexts(Pre, Shared) \o threads[a].items \o threads[b].items

\* Both calls returned and the trace holds only one of the two records.
C13_Witness ==
    /\ BothDone /\ ~Serialized
    /\ Len(Stack(Now, Shared)) = Len(Stack(Pre, Shared)) + 1

\* Both calls returned, both records are there, and a context is lost.
C13_WitnessLostContext ==
    /\ BothDone /\ ~Serialized
    /\ Len(Stack(Now, Shared)) = Len(Stack(Pre, Shared)) + 2
    /\ Len(Contexts(Now, Shared)) < Len(Contexts(Pre, Shared)) + GivenContexts

\* The calls did not overlap and each was given a context.
C13_WitnessSerialized ==
    /\ BothDone /\ Serialized
    /\ threads[1].items # <<>> /\ threads[2].items # <<>>
    /\ Len(Contexts(Now, Shared)) = Len(Contexts(Pre, Shared)) + GivenContexts

====
